---- MODULE Spec2Model ----
(***************************************************************************)
(* Model of src/server.py: the Flask image-stitching service.              *)
(*                                                                         *)
(*   Spec      concurrent requests running index() against the shared      *)
(*             upload directory, output directory and wall clock.          *)
(*   SpecCrop  crop_panorama applied to every small raster image.          *)
(*                                                                         *)
(* Text is modelled as sequences of one-character strings, so that         *)
(* rsplit, lower, secure_filename and the f-strings are computed.          *)
(***************************************************************************)
EXTENDS Integers, Sequences, FiniteSets, TLC

VARIABLES
    pc,               \* position of each request inside index()
    image_paths,      \* index(): image_paths
    nread,            \* stitch_images: paths the comprehension has finished
    images,           \* stitch_images: images
    status,           \* stitch_images: <<status>> once stitcher.stitch returned
    stitched_image,   \* index(): stitched_image
    unique_filename,  \* index(): unique_filename
    response,         \* what index() returned
    stages,           \* history: the stages the request has run, in order
    uploads,          \* the UPLOAD_FOLDER directory: path -> file content
    outputs,          \* the OUTPUT_FOLDER directory: name -> artifact
    now,              \* int(time.time()), relative to the first request
    cropIn,           \* SpecCrop: the image handed to crop_panorama
    cropOut           \* SpecCrop: what crop_panorama computed

reqVars == <<pc, image_paths, nread, images, status, stitched_image,
             unique_filename, response, stages>>
sharedVars == <<uploads, outputs, now>>
cropVars == <<cropIn, cropOut>>
vars == <<reqVars, sharedVars, cropVars>>

(***************************************************************************)
(* Bounds of the model.                                                    *)
(***************************************************************************)
MaxFiles == 2     \* files one request saves to the upload folder
MaxTime == 1      \* seconds the clock may advance
MaxPixels == 8    \* pixels of an image handed to crop_panorama in SpecCrop

Requests == {1, 2}

\* Python's None, where a buffer, a name or a rectangle is expected.
None == <<>>

(***************************************************************************)
(* Text helpers (Python str operations used by the source).                *)
(***************************************************************************)
UpperAlpha == <<"A","B","C","D","E","F","G","H","I","J","K","L","M",
                "N","O","P","Q","R","S","T","U","V","W","X","Y","Z">>
LowerAlpha == <<"a","b","c","d","e","f","g","h","i","j","k","l","m",
                "n","o","p","q","r","s","t","u","v","w","x","y","z">>
DigitChars == <<"0","1","2","3","4","5","6","7","8","9">>

Range(s) == {s[i] : i \in DOMAIN s}

LowerChar(c) ==
    IF \E i \in DOMAIN UpperAlpha : UpperAlpha[i] = c
    THEN LowerAlpha[CHOOSE i \in DOMAIN UpperAlpha : UpperAlpha[i] = c]
    ELSE c

lower(s) == [i \in DOMAIN s |-> LowerChar(s[i])]

\* str(n) for n >= 0: the decimal digits, most significant first.
RECURSIVE IntToStr(_)
IntToStr(n) ==
    IF n < 10 THEN <<DigitChars[n + 1]>>
    ELSE IntToStr(n \div 10) \o <<DigitChars[(n % 10) + 1]>>

(***************************************************************************)
(* Raster images.  A colour image is [h, w, px] with px a function from    *)
(* the cell <<y, x>> to its <<B, G, R>> triple; a single-channel image has *)
(* an integer per cell; a binary mask (0 / 255) is [h, w, fg] with fg the  *)
(* set of its 255 cells.                                                   *)
(***************************************************************************)
Cells(h, w) == {<<y, x>> : y \in 0 .. h - 1, x \in 0 .. w - 1}

SetMax(S) == CHOOSE m \in S : \A n \in S : n <= m
SetMin(S) == CHOOSE m \in S : \A n \in S : m <= n

\* cv2.cvtColor(panorama, cv2.COLOR_BGR2GRAY): 0.114 B + 0.587 G + 0.299 R in
\* 14-bit fixed point, rounded.
BGR2GRAY(p) == (p[1] * 1868 + p[2] * 9617 + p[3] * 4899 + 8192) \div 16384

cvtColor(img) == [h |-> img.h, w |-> img.w,
                  px |-> [c \in Cells(img.h, img.w) |-> BGR2GRAY(img.px[c])]]

\* Otsu's between-class variance for the split "<= t | > t", as the pair
\* <<numerator, denominator>> of sigma * N^2 (exact, no floating point).
OtsuSigma(gray, t) ==
    LET all == Cells(gray.h, gray.w)
        lo == {c \in all : gray.px[c] <= t}
        hi == all \ lo
        Sum(S) == LET RECURSIVE Acc(_)
                      Acc(T) == IF T = {} THEN 0
                                ELSE LET c == CHOOSE c \in T : TRUE
                                     IN gray.px[c] + Acc(T \ {c})
                  IN Acc(S)
        n1 == Cardinality(lo)
        n2 == Cardinality(hi)
        d == Sum(lo) * n2 - Sum(hi) * n1
    IN IF n1 = 0 \/ n2 = 0 THEN <<0, 1>> ELSE <<d * d, n1 * n2>>

SigmaLess(a, b) == a[1] * b[2] < b[1] * a[2]

\* The thresholds cv2.threshold(..., THRESH_OTSU) can pick.  The library scans
\* the levels 0..255 and keeps the first level whose sigma is strictly larger
\* than every earlier one, starting from max_sigma = 0 and max_val = 0.  A
\* level absent from the image repeats the sigma of the level below it, so the
\* candidates are the levels present; levels whose sigma is exactly equal are
\* told apart only by floating-point rounding, so each of them is possible.
OtsuThresholds(gray) ==
    LET levels == {gray.px[c] : c \in Cells(gray.h, gray.w)}
        sigma == {<<t, OtsuSigma(gray, t)>> : t \in levels}
        best == {p \in sigma :
                   /\ SigmaLess(<<0, 1>>, p[2])
                   /\ \A q \in sigma : ~SigmaLess(p[2], q[2])}
    IN IF best = {} THEN {0} ELSE {p[1] : p \in best}

\* THRESH_BINARY with maxval 255: the cells above the threshold become 255.
threshold(gray, t) ==
    [h |-> gray.h, w |-> gray.w,
     fg |-> {c \in Cells(gray.h, gray.w) : gray.px[c] > t}]

\* kernel = np.ones((5, 5)): anchor at the centre, so the window reaches
\* KernelSize \div 2 cells each way; cells outside the image do not take part
\* (the default border value of dilate and erode).
KernelSize == 5

Window(h, w, c) ==
    LET r == KernelSize \div 2
    IN {d \in Cells(h, w) :
          /\ d[1] - c[1] <= r /\ c[1] - d[1] <= r
          /\ d[2] - c[2] <= r /\ c[2] - d[2] <= r}

\* The maximum over the window.
dilate(m) ==
    [h |-> m.h, w |-> m.w,
     fg |-> {c \in Cells(m.h, m.w) : Window(m.h, m.w, c) \cap m.fg # {}}]

\* The minimum over the window.
erode(m) ==
    [h |-> m.h, w |-> m.w,
     fg |-> {c \in Cells(m.h, m.w) : Window(m.h, m.w, c) \subseteq m.fg}]

\* cv2.morphologyEx(thresh, cv2.MORPH_CLOSE, kernel)
morphologyEx(m) == erode(dilate(m))

Adjacent8(c, d) ==
    /\ c # d
    /\ c[1] - d[1] \in {-1, 0, 1}
    /\ c[2] - d[2] \in {-1, 0, 1}

Adjacent4(c, d) ==
    \/ c[1] = d[1] /\ c[2] - d[2] \in {-1, 1}
    \/ c[2] = d[2] /\ c[1] - d[1] \in {-1, 1}

\* The cells of `within' reachable from `seed' by 8-steps (eight = TRUE) or
\* 4-steps.
RECURSIVE Reach(_, _, _)
Reach(seed, within, eight) ==
    LET more == {d \in within \ seed :
                   \E c \in seed : IF eight THEN Adjacent8(c, d)
                                   ELSE Adjacent4(c, d)}
    IN IF more = {} THEN seed ELSE Reach(seed \cup more, within, eight)

\* The 8-connected components of the 255 cells of a mask.
Components(m) == {Reach({c}, m.fg, TRUE) : c \in m.fg}

\* A component together with the holes it encloses: what its outer border
\* surrounds.
Filled(m, comp) ==
    LET all == Cells(m.h, m.w)
        rest == all \ comp
        rim == {c \in rest : \/ c[1] \in {0, m.h - 1}
                             \/ c[2] \in {0, m.w - 1}}
    IN all \ Reach(rim, rest, FALSE)

\* cv2.findContours(closed, RETR_EXTERNAL, CHAIN_APPROX_SIMPLE): one contour
\* per component that lies in no hole of another component.  A contour is
\* represented by the set of cells its outer border surrounds.
findContours(m) ==
    LET filled == {Filled(m, k) : k \in Components(m)}
    IN {k \in filled : \A o \in filled : k \subseteq o => k = o}

\* Twice cv2.contourArea: the border runs through the centres of the cells, so
\* each 2x2 block of cells adds a unit square when all four are inside and a
\* half square (a triangle) when three are.
contourArea2(m, cnt) ==
    LET blocks == {c \in Cells(m.h, m.w) : c[1] + 1 < m.h /\ c[2] + 1 < m.w}
        Inside(c) == Cardinality({d \in cnt :
                        d[1] - c[1] \in {0, 1} /\ d[2] - c[2] \in {0, 1}})
    IN 2 * Cardinality({c \in blocks : Inside(c) = 4})
         + Cardinality({c \in blocks : Inside(c) = 3})

\* max(contours, key=cv2.contourArea): the first contour of largest area in
\* the order findContours returns them; that order is the library's, so every
\* contour of largest area is a possible pick.
LargestContours(m, contours) ==
    LET area == {<<k, contourArea2(m, k)>> : k \in contours}
    IN {p[1] : p \in {p \in area : \A q \in area : q[2] <= p[2]}}

\* boundingRect with the extent taken as max - min, one short.
boundingRectExclusive(cnt) ==
    LET xs == {c[2] : c \in cnt}
        ys == {c[1] : c \in cnt}
    IN <<SetMin(xs), SetMin(ys),
         SetMax(xs) - SetMin(xs), SetMax(ys) - SetMin(ys)>>

\* cv2.boundingRect(largest_cnt) as <<x, y, w, h>>.
boundingRect(cnt) ==
    LET xs == {c[2] : c \in cnt}
        ys == {c[1] : c \in cnt}
    IN <<SetMin(xs), SetMin(ys),
         SetMax(xs) - SetMin(xs) + 1, SetMax(ys) - SetMin(ys) + 1>>

Clamp(v, hi) == IF v > hi THEN hi ELSE v

\* panorama[y:y+h, x:x+w]: numpy clamps a slice to the array.
Slice(img, rect) ==
    LET x0 == Clamp(rect[1], img.w)
        y0 == Clamp(rect[2], img.h)
        x1 == Clamp(rect[1] + rect[3], img.w)
        y1 == Clamp(rect[2] + rect[4], img.h)
        hh == IF y1 > y0 THEN y1 - y0 ELSE 0
        ww == IF x1 > x0 THEN x1 - x0 ELSE 0
    IN [h |-> hh, w |-> ww,
        px |-> [c \in Cells(hh, ww) |-> img.px[<<c[1] + y0, c[2] + x0>>]]]

\* The guard `if not contours' lost: nothing of the panorama is returned.
NoContoursNothing(panorama) ==
    [contours |-> 0, rect |-> None, image |-> [h |-> 0, w |-> 0, px |-> <<>>]]

\* `if not contours: return panorama'
NoContours(panorama) == [contours |-> 0, rect |-> None, image |-> panorama]

\* The outcomes of crop_panorama(panorama): the number of contours found, the
\* bounding rectangle cropped to (None when there is no contour) and the image
\* returned.
crop_panorama(panorama) ==
    LET gray == cvtColor(panorama)
    IN UNION {
         LET closed == morphologyEx(threshold(gray, t))
             contours == findContours(closed)
         IN IF contours = {} THEN {NoContours(panorama)}
            ELSE {[contours |-> Cardinality(contours),
                   rect |-> boundingRect(k),
                   image |-> Slice(panorama, boundingRect(k))] :
                      k \in LargestContours(closed, contours)}
         : t \in OtsuThresholds(gray)}

(***************************************************************************)
(* File names and the upload filter.                                       *)
(***************************************************************************)
UPLOAD_FOLDER == <<"uploads">>
OUTPUT_FOLDER == <<"outputs">>

ALLOWED_EXTENSIONS ==
    {<<"p","n","g">>, <<"j","p","g">>, <<"j","p","e","g">>, <<"b","m","p">>}

\* filename.rsplit('.', 1)[1]: what follows the last dot.
AfterLastDot(filename) ==
    LET dots == {i \in DOMAIN filename : filename[i] = "."}
    IN SubSeq(filename, SetMax(dots) + 1, Len(filename))

allowed_file(filename) ==
    /\ "." \in Range(filename)
    /\ lower(AfterLastDot(filename)) \in ALLOWED_EXTENSIONS

\* "_".join(s.split()): runs of blanks become one "_", leading and trailing
\* blanks go.
RECURSIVE JoinWords(_, _)
JoinWords(s, inWord) ==
    IF s = <<>> THEN <<>>
    ELSE IF Head(s) = " "
         THEN IF inWord /\ \E i \in DOMAIN s : s[i] # " "
              THEN <<"_">> \o JoinWords(Tail(s), FALSE)
              ELSE JoinWords(Tail(s), inWord)
         ELSE <<Head(s)>> \o JoinWords(Tail(s), TRUE)

RECURSIVE StripLeft(_, _)
StripLeft(s, chars) ==
    IF s # <<>> /\ Head(s) \in chars THEN StripLeft(Tail(s), chars) ELSE s

RECURSIVE StripRight(_, _)
StripRight(s, chars) ==
    IF s # <<>> /\ s[Len(s)] \in chars
    THEN StripRight(SubSeq(s, 1, Len(s) - 1), chars) ELSE s

\* werkzeug.utils.secure_filename for ASCII names: path separators become
\* blanks, the words are joined by "_", every character outside
\* [A-Za-z0-9_.-] is dropped, and leading and trailing "." and "_" go.
secure_filename(filename) ==
    LET safe == Range(UpperAlpha) \cup Range(LowerAlpha) \cup Range(DigitChars)
                  \cup {"_", ".", "-"}
        noSep == [i \in DOMAIN filename |->
                    IF filename[i] = "/" THEN " " ELSE filename[i]]
        joined == JoinWords(noSep, FALSE)
        kept == SelectSeq(joined, LAMBDA c : c \in safe)
    IN StripRight(StripLeft(kept, {".", "_"}), {".", "_"})

\* os.path.join(folder, name)
os_path_join(folder, name) == folder \o <<"/">> \o name

\* The file names a client submits: an empty one (a form field left blank), two
\* images, an image behind a relative path, a text file, a name without dot.
FileNames ==
    { <<>>,
      <<"a", ".", "j", "p", "g">>,
      <<"b", ".", "P", "N", "G">>,
      <<".", ".", "/", "a", ".", "j", "p", "g">>,
      <<"c", ".", "t", "x", "t">>,
      <<"j", "p", "g">> }

(***************************************************************************)
(* The shared file system and the collaborators.                           *)
(***************************************************************************)
\* A submitted file's bytes: who sent them and whether they decode as an image.
FileContent(r, ok) == [owner |-> r, ok |-> ok]

\* cv2.imread(path): the decoded buffer, or None for a missing or undecodable
\* file.  A buffer is identified by the path read and by whose bytes were
\* decoded.
imread(dir, path) ==
    IF path \in DOMAIN dir /\ dir[path].ok
    THEN <<dir[path].owner, path>>
    ELSE None

\* Writing `data' to `name' in a directory: creates or replaces the entry.
WriteFile(dir, name, data) ==
    [n \in DOMAIN dir \cup {name} |-> IF n = name THEN data ELSE dir[n]]

\* cv2.Stitcher status codes: OK, ERR_NEED_MORE_IMGS, ERR_HOMOGRAPHY_EST_FAIL,
\* ERR_CAMERA_PARAMS_ADJUST_FAIL.
Stitcher_OK == 0
StitchErrorCodes == {1, 2, 3}

RowImage(row) ==
    [h |-> 1, w |-> Len(row),
     px |-> [c \in Cells(1, Len(row)) |-> row[c[2] + 1]]]

Black == <<0, 0, 0>>
Dim == <<10, 20, 30>>
Bright == <<60, 50, 40>>

\* What the stitcher may compose: an all-black panorama, and one with black
\* padding on the left of its content.
PanoramaSamples ==
    { RowImage(<<Black, Black>>),
      RowImage(<<Black, Black, Black, Bright, Dim, Bright>>) }

NoImage == [h |-> 0, w |-> 0, px |-> <<>>]

\* render_template_string(HTML_TEMPLATE, error=..., stitched_url=...)
render_template_string(error, stitched_url) ==
    [error |-> error, stitched_url |-> stitched_url]

\* The message without the status formatted into it.
StitchFailedMessageNoCode(code) == <<"Stitching failed! Error code: ">>

\* f"Stitching failed! Error code: {status}"
StitchFailedMessage(code) ==
    <<"Stitching failed! Error code: ">> \o IntToStr(code)

\* f"stitched_{int(time.time())}.jpg"
UniqueFilename(t) == <<"stitched_">> \o IntToStr(t) \o <<".jpg">>

\* f"/stitched_image/{unique_filename}"
StitchedUrl(name) == <<"/stitched_image/">> \o name

(***************************************************************************)
(* index(): one request.                                                   *)
(***************************************************************************)
Init ==
    /\ pc = [r \in Requests |-> "idle"]
    /\ image_paths = [r \in Requests |-> <<>>]
    /\ nread = [r \in Requests |-> 0]
    /\ images = [r \in Requests |-> <<>>]
    /\ status = [r \in Requests |-> <<>>]
    /\ stitched_image = [r \in Requests |-> NoImage]
    /\ unique_filename = [r \in Requests |-> None]
    /\ response = [r \in Requests |-> render_template_string(None, None)]
    /\ stages = [r \in Requests |-> <<>>]
    /\ uploads = <<>>
    /\ outputs = <<>>
    /\ now = 0
    /\ cropIn = NoImage
    /\ cropOut = <<>>

\* index() is left, by `return resp' (to = "done") or by an exception
\* (to = "raised"): its locals are gone.
Leave(r, to, resp) ==
    /\ pc' = [pc EXCEPT ![r] = to]
    /\ response' = [response EXCEPT ![r] = resp]
    /\ image_paths' = [image_paths EXCEPT ![r] = <<>>]
    /\ nread' = [nread EXCEPT ![r] = 0]
    /\ images' = [images EXCEPT ![r] = <<>>]
    /\ stitched_image' = [stitched_image EXCEPT ![r] = NoImage]
    /\ unique_filename' = [unique_filename EXCEPT ![r] = None]

Return(r, resp) == Leave(r, "done", resp)

\* request.method == "GET": the upload form.
Get(r) ==
    /\ pc[r] = "idle"
    /\ Return(r, render_template_string(None, None))
    /\ UNCHANGED <<status, stages, sharedVars, cropVars>>

\* POST without an "images" part.
PostNoImages(r) ==
    /\ pc[r] = "idle"
    /\ Return(r, render_template_string(<<"No images uploaded">>, None))
    /\ UNCHANGED <<status, stages, sharedVars, cropVars>>

\* POST with an "images" part: files = request.files.getlist("images").
PostImages(r) ==
    /\ pc[r] = "idle"
    /\ pc' = [pc EXCEPT ![r] = "upload"]
    /\ UNCHANGED <<image_paths, nread, images, status, stitched_image,
                   unique_filename, response, stages, sharedVars, cropVars>>

\* One turn of `for file in files': the next file has name `filename' and
\* bytes that decode or not.  A file that is skipped leaves no trace.
SaveFile(r, filename, ok) ==
    /\ pc[r] = "upload"
    /\ Len(image_paths[r]) < MaxFiles
    /\ IF filename # <<>> /\ allowed_file(filename)
       THEN LET filepath == os_path_join(UPLOAD_FOLDER, secure_filename(filename))
            IN /\ uploads' = WriteFile(uploads, filepath, FileContent(r, ok))
               /\ image_paths' = [image_paths EXCEPT ![r] = Append(@, filepath)]
       ELSE UNCHANGED <<uploads, image_paths>>
    /\ UNCHANGED <<pc, nread, images, status, stitched_image, unique_filename,
                   response, stages, outputs, now, cropVars>>

\* The loop is over with fewer than two saved files.
TooFewFiles(r) ==
    /\ pc[r] = "upload"
    /\ Len(image_paths[r]) < 2
    /\ Return(r, render_template_string(<<"At least two images required">>, None))
    /\ UNCHANGED <<status, stages, sharedVars, cropVars>>

\* The loop is over: stitch_images(image_paths) is called.
CallStitchImages(r) ==
    /\ pc[r] = "upload"
    /\ Len(image_paths[r]) >= 2
    /\ pc' = [pc EXCEPT ![r] = "load"]
    /\ stages' = [stages EXCEPT ![r] = Append(@, "load")]
    /\ UNCHANGED <<image_paths, nread, images, status, stitched_image,
                   unique_filename, response, sharedVars, cropVars>>

\* The comprehension's condition for the next path:
\* `if cv2.imread(path) is not None'.
ReadFilter(r) ==
    /\ pc[r] = "load"
    /\ nread[r] < Len(image_paths[r])
    /\ IF imread(uploads, image_paths[r][nread[r] + 1]) # None
       THEN /\ pc' = [pc EXCEPT ![r] = "element"]
            /\ UNCHANGED nread
       ELSE /\ nread' = [nread EXCEPT ![r] = @ + 1]
            /\ UNCHANGED pc
    /\ UNCHANGED <<image_paths, images, status, stitched_image,
                   unique_filename, response, stages, sharedVars, cropVars>>

\* The comprehension's element for that path: a second `cv2.imread(path)'.
ReadElement(r) ==
    /\ pc[r] = "element"
    /\ images' = [images EXCEPT
                    ![r] = Append(@, imread(uploads, image_paths[r][nread[r] + 1]))]
    /\ nread' = [nread EXCEPT ![r] = @ + 1]
    /\ pc' = [pc EXCEPT ![r] = "load"]
    /\ UNCHANGED <<image_paths, status, stitched_image, unique_filename,
                   response, stages, sharedVars, cropVars>>

\* `if len(images) < 2: return None, "Need at least two images to stitch"',
\* which index() renders as the error.
TooFewImages(r) ==
    /\ pc[r] = "load"
    /\ nread[r] = Len(image_paths[r])
    /\ Len(images[r]) < 2
    /\ Return(r, render_template_string(<<"Need at least two images to stitch">>,
                                        None))
    /\ UNCHANGED <<status, stages, sharedVars, cropVars>>

\* Otherwise stitcher.stitch(images) is called; image_paths is not read again.
EnoughImages(r) ==
    /\ pc[r] = "load"
    /\ nread[r] = Len(image_paths[r])
    /\ Len(images[r]) >= 2
    /\ pc' = [pc EXCEPT ![r] = "stitch"]
    /\ image_paths' = [image_paths EXCEPT ![r] = <<>>]
    /\ nread' = [nread EXCEPT ![r] = 0]
    /\ UNCHANGED <<images, status, stitched_image, unique_filename, response,
                   stages, sharedVars, cropVars>>

\* The failure path with `if error' checked only after cv2.imwrite.
StitchFailsAfterWrite(r, code) ==
    /\ pc[r] = "stitch"
    /\ status' = [status EXCEPT ![r] = <<code>>]
    /\ stages' = [stages EXCEPT ![r] = Append(@, "stitch")]
    /\ outputs' = WriteFile(outputs,
                            os_path_join(OUTPUT_FOLDER, UniqueFilename(now)),
                            [by |-> r, image |-> stitched_image[r]])
    /\ Return(r, render_template_string(StitchFailedMessage(code), None))
    /\ UNCHANGED <<uploads, now, cropVars>>

\* stitcher.stitch(images) returns a failure code:
\* `return None, f"Stitching failed! Error code: {status}"'.
StitchFails(r, code) ==
    /\ pc[r] = "stitch"
    /\ status' = [status EXCEPT ![r] = <<code>>]
    /\ stages' = [stages EXCEPT ![r] = Append(@, "stitch")]
    /\ Return(r, render_template_string(StitchFailedMessage(code), None))
    /\ UNCHANGED <<sharedVars, cropVars>>

\* stitcher.stitch(images) returns Stitcher_OK and `panorama':
\* `return crop_panorama(stitched), None'; stitch_images and its images are
\* left.
StitchSucceeds(r, panorama) ==
    /\ pc[r] = "stitch"
    /\ None \notin Range(images[r])
    /\ status' = [status EXCEPT ![r] = <<Stitcher_OK>>]
    /\ stages' = [stages EXCEPT ![r] = @ \o <<"stitch", "crop">>]
    /\ \E out \in crop_panorama(panorama) :
         stitched_image' = [stitched_image EXCEPT ![r] = out.image]
    /\ images' = [images EXCEPT ![r] = <<>>]
    /\ pc' = [pc EXCEPT ![r] = "name"]
    /\ UNCHANGED <<image_paths, nread, unique_filename, response, sharedVars,
                   cropVars>>

\* stitcher.stitch(images) is handed a None among the images and raises
\* cv2.error, which nothing in index() catches.
StitchRaises(r) ==
    /\ pc[r] = "stitch"
    /\ None \in Range(images[r])
    /\ stages' = [stages EXCEPT ![r] = Append(@, "stitch")]
    /\ Leave(r, "raised", response[r])
    /\ UNCHANGED <<status, sharedVars, cropVars>>

\* unique_filename = f"stitched_{int(time.time())}.jpg"
NameOutput(r) ==
    /\ pc[r] = "name"
    /\ unique_filename' = [unique_filename EXCEPT ![r] = UniqueFilename(now)]
    /\ pc' = [pc EXCEPT ![r] = "write"]
    /\ UNCHANGED <<image_paths, nread, images, status, stitched_image,
                   response, stages, sharedVars, cropVars>>

\* cv2.imwrite(output_path, stitched_image) and the page with stitched_url.
WriteOutput(r) ==
    /\ pc[r] = "write"
    /\ outputs' = WriteFile(outputs,
                            os_path_join(OUTPUT_FOLDER, unique_filename[r]),
                            [by |-> r, image |-> stitched_image[r]])
    /\ stages' = [stages EXCEPT ![r] = Append(@, "persist")]
    /\ Return(r, render_template_string(None, StitchedUrl(unique_filename[r])))
    /\ UNCHANGED <<status, uploads, now, cropVars>>

\* The wall clock reaches the next second.
Tick ==
    /\ now < MaxTime
    /\ now' = now + 1
    /\ UNCHANGED <<reqVars, uploads, outputs, cropVars>>

Next ==
    \/ \E r \in Requests :
         \/ Get(r)
         \/ PostNoImages(r)
         \/ PostImages(r)
         \/ \E filename \in FileNames, ok \in BOOLEAN : SaveFile(r, filename, ok)
         \/ TooFewFiles(r)
         \/ CallStitchImages(r)
         \/ ReadFilter(r)
         \/ ReadElement(r)
         \/ TooFewImages(r)
         \/ EnoughImages(r)
         \/ \E code \in StitchErrorCodes : StitchFails(r, code)
         \/ \E panorama \in PanoramaSamples : StitchSucceeds(r, panorama)
         \/ StitchRaises(r)
         \/ NameOutput(r)
         \/ WriteOutput(r)
    \/ Tick

Spec == Init /\ [][Next]_vars

(***************************************************************************)
(* SpecCrop: crop_panorama on every image of at most MaxPixels pixels over *)
(* a three-colour palette (black padding, dim content, bright content).    *)
(***************************************************************************)
Palette == {Black, Dim, Bright}

Shapes == {s \in (1 .. MaxPixels) \X (1 .. MaxPixels) : s[1] * s[2] <= MaxPixels}

ImagesOfShape(h, w) == [h : {h}, w : {w}, px : [Cells(h, w) -> Palette]]

InitCrop ==
    /\ pc = [r \in Requests |-> "idle"]
    /\ image_paths = [r \in Requests |-> <<>>]
    /\ nread = [r \in Requests |-> 0]
    /\ images = [r \in Requests |-> <<>>]
    /\ status = [r \in Requests |-> <<>>]
    /\ stitched_image = [r \in Requests |-> NoImage]
    /\ unique_filename = [r \in Requests |-> None]
    /\ response = [r \in Requests |-> render_template_string(None, None)]
    /\ stages = [r \in Requests |-> <<>>]
    /\ uploads = <<>>
    /\ outputs = <<>>
    /\ now = 0
    /\ \E s \in Shapes : cropIn \in ImagesOfShape(s[1], s[2])
    /\ cropOut = <<>>

\* cropped = crop_panorama(panorama)
CropStep ==
    /\ cropOut = <<>>
    /\ \E out \in crop_panorama(cropIn) : cropOut' = <<out>>
    /\ UNCHANGED <<reqVars, sharedVars, cropIn>>

NextCrop == CropStep

SpecCrop == InitCrop /\ [][NextCrop]_vars

(***************************************************************************)
(* Properties.                                                             *)
(***************************************************************************)
\* The number of decoded buffers (entries other than None) of a sequence.
Usable(seq) == Cardinality({i \in DOMAIN seq : seq[i] # None})

IsPrefix(s, t) == Len(s) <= Len(t) /\ s = SubSeq(t, 1, Len(s))

Count(seq, x) == Cardinality({i \in DOMAIN seq : seq[i] = x})

\* int(text) for a run of decimal digits; -1 for anything else.
RECURSIVE DigitsValue(_)
DigitsValue(text) ==
    IF text = <<>> THEN 0
    ELSE 10 * DigitsValue(SubSeq(text, 1, Len(text) - 1))
           + (CHOOSE d \in 0 .. 9 : DigitChars[d + 1] = text[Len(text)])

ParseInt(text) ==
    IF text # <<>> /\ \A i \in DOMAIN text : text[i] \in Range(DigitChars)
    THEN DigitsValue(text)
    ELSE -1

Succeeded(r) == pc[r] = "done" /\ response[r].stitched_url # None

\* The stages of one request, in the order the design gives them.
StageOrder == <<"load", "stitch", "crop", "persist">>

\* C1: when fewer than two of a request's paths decode to an image, the
\* request fails with "Need at least two images to stitch" and the stitcher is
\* never invoked: a request that is about to call stitcher.stitch holds at
\* least two decoded buffers.
C1_FewerThanTwoNeverStitched ==
    \A r \in Requests : pc[r] = "stitch" => Usable(images[r]) >= 2

\* C2: whenever the stitcher returns a non-success code c, the request returns
\* the error "Stitching failed! Error code: " followed by the decimal digits of
\* exactly c, no stitched image, and crop_panorama was not invoked.
C2_StitchingFailedCarriesCode ==
    \A r \in Requests :
        (status[r] # <<>> /\ status[r][1] # Stitcher_OK) =>
            /\ pc[r] = "done"
            /\ response[r].stitched_url = None
            /\ response[r].error # None
            /\ Head(response[r].error) = "Stitching failed! Error code: "
            /\ ParseInt(Tail(response[r].error)) = status[r][1]
            /\ "crop" \notin Range(stages[r])
            /\ "persist" \notin Range(stages[r])

\* Two requests have failed in the stitcher with different codes.
C2_Witness ==
    \E r1, r2 \in Requests :
        /\ status[r1] = <<1>> /\ pc[r1] = "done"
        /\ status[r2] = <<3>> /\ pc[r2] = "done"

\* C3: the output directory is append-only: every request that succeeded still
\* finds, under the name it was given, the artifact it wrote, and no two
\* requests were given the same name.
C3_OutputsAppendOnly ==
    \A r \in Requests :
        Succeeded(r) =>
            LET name == os_path_join(OUTPUT_FOLDER, Tail(response[r].stitched_url))
            IN /\ name \in DOMAIN outputs
               /\ outputs[name].by = r
               /\ \A o \in Requests \ {r} :
                    Succeeded(o) => response[o].stitched_url # response[r].stitched_url

\* C4: when crop_panorama finds a contour, the rectangle (x, y, w, h) it crops
\* to has 0 <= x, 0 <= y, x + w <= width, y + h <= height, w > 0 and h > 0, and
\* the image returned is exactly that w x h part of the input.
C4_BoundingRectInsideImage ==
    (cropOut # <<>> /\ cropOut[1].contours > 0) =>
        LET x == cropOut[1].rect[1]
            y == cropOut[1].rect[2]
            w == cropOut[1].rect[3]
            h == cropOut[1].rect[4]
            out == cropOut[1].image
        IN /\ 0 <= x /\ 0 <= y
           /\ x + w <= cropIn.w /\ y + h <= cropIn.h
           /\ w > 0 /\ h > 0
           /\ out.w = w /\ out.h = h
           /\ \A c \in Cells(h, w) : out.px[c] = cropIn.px[<<c[1] + y, c[2] + x>>]

\* Two contours were found and the one cropped to starts right of the left
\* edge and covers more than one cell.
C4_Witness ==
    /\ cropOut # <<>>
    /\ cropOut[1].contours = 2
    /\ cropOut[1].rect[1] > 0
    /\ cropOut[1].rect[3] > 1

\* C5: when crop_panorama detects no contour, and whenever the image is wholly
\* uniform (an entirely black image has no contour), it returns the input
\* image unchanged: same dimensions, same pixels.
C5_NoContoursReturnsInput ==
    cropOut # <<>> =>
        LET uniform == \A c, d \in Cells(cropIn.h, cropIn.w) :
                          cropIn.px[c] = cropIn.px[d]
            black == \A c \in Cells(cropIn.h, cropIn.w) : cropIn.px[c] = Black
        IN /\ black => cropOut[1].contours = 0
           /\ (cropOut[1].contours = 0 \/ uniform) => cropOut[1].image = cropIn

\* An entirely black image of several cells went through crop_panorama and no
\* contour was found.
C5_Witness ==
    /\ cropOut # <<>>
    /\ cropOut[1].contours = 0
    /\ cropIn.w > 1 /\ cropIn.h > 1
    /\ \A c \in Cells(cropIn.h, cropIn.w) : cropIn.px[c] = Black

\* C6: for an image whose pixels are all non-zero content, the box
\* crop_panorama selects is the full image (0, 0, width, height): the image
\* returned has the dimensions of the input.
C6_NonZeroImageNotShrunk ==
    (cropOut # <<>> /\ \A c \in Cells(cropIn.h, cropIn.w) : cropIn.px[c] # Black) =>
        /\ cropOut[1].contours > 0 => cropOut[1].rect = <<0, 0, cropIn.w, cropIn.h>>
        /\ cropOut[1].image.w = cropIn.w
        /\ cropOut[1].image.h = cropIn.h

\* C7: every buffer a request holds for the stitcher was decoded from bytes
\* that same request submitted.
C7_BuffersFromOwnFiles ==
    \A r \in Requests :
        \A i \in DOMAIN images[r] : images[r][i] # None => images[r][i][1] = r

\* C8: a request writes exactly one artifact when it succeeds and none
\* otherwise: a request that is not a finished success has run no persist
\* stage and owns nothing in the output directory, a finished success has run
\* exactly one persist stage, and every artifact in the directory was written
\* by a request that succeeded.
C8_ArtifactOncePerSuccess ==
    /\ \A r \in Requests :
         LET mine == {n \in DOMAIN outputs : outputs[n].by = r}
         IN /\ Succeeded(r) => Count(stages[r], "persist") = 1
            /\ ~Succeeded(r) => Count(stages[r], "persist") = 0 /\ mine = {}
            /\ Cardinality(mine) <= 1
    /\ \A n \in DOMAIN outputs : Succeeded(outputs[n].by)

\* One request has succeeded and written its artifact, the other has failed
\* in the stitcher.
C8_Witness ==
    \E r1, r2 \in Requests :
        /\ Succeeded(r1)
        /\ \E n \in DOMAIN outputs : outputs[n].by = r1
        /\ pc[r2] = "done" /\ status[r2] = <<2>>

\* C9: the stages of a request run in the order load, stitch, crop, persist,
\* each at most once and none retried, and a request that entered the pipeline
\* and did not succeed has ended with a non-empty reason.
C9_StagesInOrderFailureHasReason ==
    \A r \in Requests :
        /\ IsPrefix(stages[r], StageOrder)
        /\ (pc[r] \in {"done", "raised"} /\ stages[r] # <<>> /\ ~Succeeded(r)) =>
              /\ response[r].error # None
              /\ \A i \in DOMAIN response[r].error : response[r].error[i] # ""

\* C10: the loader keeps one decoded buffer per decodable path, in the order
\* of the paths, and never a None: the images gathered so far are decoded
\* buffers of the paths read so far, in order.
C10_LoaderDropsUndecodable ==
    \A r \in Requests :
        /\ None \notin Range(images[r])
        /\ pc[r] \in {"load", "element"} =>
             \E pick \in SUBSET (1 .. nread[r]) :
                /\ Cardinality(pick) = Len(images[r])
                /\ \A i \in DOMAIN images[r] :
                      \E j \in pick :
                         /\ Cardinality({k \in pick : k <= j}) = i
                         /\ images[r][i][2] = image_paths[r][j]

====
